---- MODULE Spec2Model ----
(***************************************************************************)
(* Model of terraform/lambda/backup_orchestrator.py: the Lambda handler    *)
(* that runs four backup steps in sequence, collects their results in      *)
(* backup_results, derives overall_status and returns a status code.       *)
(*                                                                         *)
(* Python dicts are records; a key that a dict may or may not hold is a    *)
(* field that is or is not in the record's DOMAIN.  Strings that the code  *)
(* searches (ENVIRONMENT in DBInstanceIdentifier) are tuples of            *)
(* characters.  Wall-clock timestamps are left out of keys and results:    *)
(* no branch of the code reads them.                                       *)
(***************************************************************************)
EXTENDS Integers, Sequences, FiniteSets, TLC

VARIABLES
    pc,              \* the statement of handler that runs next ("done": it has left)
    backup_results,  \* handler's local dict (line 37)
    response,        \* what handler has returned or raised, NoResponse before
    s3,              \* the objects stored in S3_BUCKET, in the order written
    cluster_status,  \* the EKS cluster's status, as describe_cluster reports it
    rds,             \* the RDS instances of the account, with their snapshots
    invoked          \* history: the steps handler has called, in call order, each
                     \* with the client call that raised in it and the exception

vars == <<pc, backup_results, response, s3, cluster_status, rds, invoked>>

-----------------------------------------------------------------------------
(* Bounds *)

MaxInstances == 2
MaxOps == 4

-----------------------------------------------------------------------------
(* Environment *)

ENVIRONMENT == <<"q", "a">>

\* Python's `s in t` for strings
IsSubstring(s, t) ==
    \E i \in 0..(Len(t) - Len(s)) : SubSeq(t, i + 1, i + Len(s)) = s

\* dict.get(key, default)
get(d, key, default) == IF key \in DOMAIN d THEN d[key] ELSE default

\* json.dumps: the text of the value as it is at the time of the call
json_dumps(x) == [json |-> x]

Range(f) == {f[i] : i \in DOMAIN f}

InstanceIds == {<<"q", "a", "1">>, <<"d", "q", "a">>, <<"d", "e", "v">>}

\* a DBInstances entry: BackupRetentionPeriod may be missing from the dict
InstanceDicts ==
    [DBInstanceIdentifier : InstanceIds, BackupRetentionPeriod : {0, 7}]
        \cup [DBInstanceIdentifier : InstanceIds]

SnapshotLists == {<<>>, <<"snap-1", "snap-2">>}

RdsEntries == [instance : InstanceDicts, DBSnapshots : SnapshotLists]

RECURSIVE SeqsUpTo(_, _)
SeqsUpTo(S, n) ==
    IF n = 0 THEN {<<>>}
    ELSE LET shorter == SeqsUpTo(S, n - 1)
         IN  shorter \cup {Append(q, x) : q \in {r \in shorter : Len(r) = n - 1}, x \in S}

DistinctIds(w) ==
    \A i, j \in DOMAIN w :
        i # j => w[i].instance.DBInstanceIdentifier # w[j].instance.DBInstanceIdentifier

RdsWorlds == {w \in SeqsUpTo(RdsEntries, MaxInstances) : DistinctIds(w)}

ClusterStatuses == {"ACTIVE", "CREATING"}

\* what str(e) gives for the exceptions of the AWS clients
ErrMsgs == {"AccessDenied", "ConnectTimeout"}

\* A fault plan for one step: the at-th client call of the step raises
\* (0: none does) an exception whose text is msg.  A put_object that
\* raises stores nothing.
NoFault == [at |-> 0, msg |-> "AccessDenied"]

Faults == {NoFault} \cup [at : 1..(MaxInstances + 1), msg : ErrMsgs]

-----------------------------------------------------------------------------
(* What a call of a step gives back to handler *)

Return(value, puts) ==
    [kind |-> "return", value |-> value, puts |-> puts,
     raised |-> "none", exc |-> "none"]

\* the step's own `except Exception as e` clause
Caught(operation, call, e, puts) ==
    [kind |-> "return",
     value |-> [operation |-> operation, status |-> "FAILED", error |-> e],
     puts |-> puts, raised |-> call, exc |-> e]

Raise(call, e, puts) ==
    [kind |-> "raise", puts |-> puts, raised |-> call, exc |-> e]

PutObject(key, body) == [Key |-> key, Body |-> body]

-----------------------------------------------------------------------------
(* backup_kubernetes_resources: client calls 1 describe_cluster, 2 put_object *)

backup_metadata ==
    [cluster_name |-> "main", backup_type |-> "full",
     namespaces |-> <<"agentscan", "kube-system", "monitoring">>]

backup_kubernetes_resources(status, fault) ==
    IF fault.at = 1
    THEN Caught("kubernetes_backup", "describe_cluster", fault.msg, <<>>)
    ELSE IF status # "ACTIVE"
    THEN Return([operation |-> "kubernetes_backup", status |-> "SKIPPED",
                 message |-> <<"Cluster status is", status>>], <<>>)
    ELSE LET obj == PutObject("k8s-backups/metadata.json", json_dumps(backup_metadata))
         IN  IF fault.at = 2
             THEN Caught("kubernetes_backup", "put_object", fault.msg, <<>>)
             ELSE Return([operation |-> "kubernetes_backup", status |-> "SUCCESS",
                          backup_location |-> "k8s-backups/cluster-backup.tar.gz",
                          metadata |-> backup_metadata], <<obj>>)

-----------------------------------------------------------------------------
(* verify_rds_backups: client calls 1 describe_db_instances, then one      *)
(* describe_db_snapshots for each matching instance with retention > 0     *)

describe_db_instances(world) ==
    [DBInstances |-> [i \in DOMAIN world |-> world[i].instance]]

describe_db_snapshots(world, instance_id) ==
    LET e == CHOOSE x \in Range(world) : x.instance.DBInstanceIdentifier = instance_id
    IN  [DBSnapshots |-> e.DBSnapshots]

agentscan_instances(db_instances) ==
    SelectSeq(db_instances.DBInstances,
              LAMBDA instance : IsSubstring(ENVIRONMENT, instance.DBInstanceIdentifier))

\* backup_status_entry with >= for > in the test of recent_snapshots
backup_status_entry_AnyCount(world, instance) ==
    LET instance_id == instance.DBInstanceIdentifier
        backup_retention == get(instance, "BackupRetentionPeriod", 0)
    IN  IF backup_retention > 0
        THEN LET snapshots == describe_db_snapshots(world, instance_id)
                 recent_snapshots == Len(snapshots.DBSnapshots)
             IN  [instance_id |-> instance_id,
                  backup_retention_days |-> backup_retention,
                  recent_snapshots |-> recent_snapshots,
                  status |-> IF recent_snapshots >= 0 THEN "HEALTHY" ELSE "WARNING"]
        ELSE [instance_id |-> instance_id,
              backup_retention_days |-> backup_retention,
              status |-> "DISABLED"]

\* one pass of the loop of lines 164-191
backup_status_entry(world, instance) ==
    LET instance_id == instance.DBInstanceIdentifier
        backup_retention == get(instance, "BackupRetentionPeriod", 0)
    IN  IF backup_retention > 0
        THEN LET snapshots == describe_db_snapshots(world, instance_id)
                 recent_snapshots == Len(snapshots.DBSnapshots)
             IN  [instance_id |-> instance_id,
                  backup_retention_days |-> backup_retention,
                  recent_snapshots |-> recent_snapshots,
                  status |-> IF recent_snapshots > 0 THEN "HEALTHY" ELSE "WARNING"]
        ELSE [instance_id |-> instance_id,
              backup_retention_days |-> backup_retention,
              status |-> "DISABLED"]

\* overall_rds_status that hands an instance's WARNING up as the step's status
overall_rds_status_WarningPropagates(backup_status) ==
    IF \E i \in DOMAIN backup_status :
           backup_status[i].status \notin {"HEALTHY", "WARNING"}
    THEN "FAILED"
    ELSE IF \E i \in DOMAIN backup_status : backup_status[i].status = "WARNING"
    THEN "WARNING" ELSE "SUCCESS"

\* overall_rds_status that lets DISABLED pass
overall_rds_status_DisabledPasses(backup_status) ==
    IF \A i \in DOMAIN backup_status :
           backup_status[i].status \in {"HEALTHY", "WARNING", "DISABLED"}
    THEN "SUCCESS" ELSE "FAILED"

\* lines 193-195
overall_rds_status(backup_status) ==
    IF \A i \in DOMAIN backup_status :
           backup_status[i].status \in {"HEALTHY", "WARNING"}
    THEN "SUCCESS" ELSE "FAILED"

\* the number of describe_db_snapshots calls the loop makes when none raises
SnapshotCalls(instances) ==
    Cardinality({i \in DOMAIN instances :
                    get(instances[i], "BackupRetentionPeriod", 0) > 0})

verify_rds_backups(world, fault) ==
    IF fault.at = 1
    THEN Caught("rds_backup_verification", "describe_db_instances", fault.msg, <<>>)
    ELSE LET instances == agentscan_instances(describe_db_instances(world))
         IN  IF fault.at \in 2..(1 + SnapshotCalls(instances))
             THEN Caught("rds_backup_verification", "describe_db_snapshots",
                         fault.msg, <<>>)
             ELSE LET backup_status ==
                          [i \in DOMAIN instances |->
                              backup_status_entry(world, instances[i])]
                  IN  Return([operation |-> "rds_backup_verification",
                              status |-> overall_rds_status(backup_status),
                              instances |-> backup_status], <<>>)

-----------------------------------------------------------------------------
(* backup_application_data: client call 1 put_object *)

app_backup_items ==
    << [type |-> "configuration", size_mb |-> 5, status |-> "SUCCESS"],
       [type |-> "scan_results", size_mb |-> 1024, status |-> "SUCCESS"],
       [type |-> "ml_models", size_mb |-> 256, status |-> "SUCCESS"],
       [type |-> "audit_logs", size_mb |-> 128, status |-> "SUCCESS"] >>

RECURSIVE SumSize(_)
SumSize(items) ==
    IF items = <<>> THEN 0 ELSE Head(items).size_mb + SumSize(Tail(items))

backup_manifest ==
    [environment |-> ENVIRONMENT, backup_items |-> app_backup_items,
     total_size_mb |-> SumSize(app_backup_items)]

\* backup_application_data without its try/except: put_object's exception leaves the step
backup_application_data_NoCatch(fault) ==
    LET obj == PutObject("app-backups/manifest.json", json_dumps(backup_manifest))
    IN  IF fault.at = 1
        THEN Raise("put_object", fault.msg, <<>>)
        ELSE Return([operation |-> "application_data_backup", status |-> "SUCCESS",
                     backup_location |-> "app-backups/",
                     manifest |-> backup_manifest], <<obj>>)

backup_application_data(fault) ==
    LET obj == PutObject("app-backups/manifest.json", json_dumps(backup_manifest))
    IN  IF fault.at = 1
        THEN Caught("application_data_backup", "put_object", fault.msg, <<>>)
        ELSE Return([operation |-> "application_data_backup", status |-> "SUCCESS",
                     backup_location |-> "app-backups/",
                     manifest |-> backup_manifest], <<obj>>)

-----------------------------------------------------------------------------
(* upload_backup_metadata: client call 1 put_object *)

\* upload_backup_metadata that records its own result in the report it writes
upload_backup_metadata_SelfRecorded(results, fault) ==
    LET own == [operation |-> "metadata_upload", status |-> "SUCCESS",
                location |-> "backup-reports/backup-report.json"]
        obj == PutObject("backup-reports/backup-report.json",
                         json_dumps([results EXCEPT !.backup_operations =
                                                        Append(@, own)]))
    IN  IF fault.at = 1
        THEN Caught("metadata_upload", "put_object", fault.msg, <<>>)
        ELSE Return(own, <<obj>>)

upload_backup_metadata(results, fault) ==
    LET obj == PutObject("backup-reports/backup-report.json", json_dumps(results))
    IN  IF fault.at = 1
        THEN Caught("metadata_upload", "put_object", fault.msg, <<>>)
        ELSE Return([operation |-> "metadata_upload", status |-> "SUCCESS",
                     location |-> "backup-reports/backup-report.json"], <<obj>>)

-----------------------------------------------------------------------------
(* check_backup_health *)

\* check_backup_health with the two tests in the other order
check_backup_health_WarningFirst(results) ==
    LET operations == get(results, "backup_operations", <<>>)
        failed_operations ==
            SelectSeq(operations, LAMBDA op : get(op, "status", "None") = "FAILED")
        warning_operations ==
            SelectSeq(operations, LAMBDA op : get(op, "status", "None") = "WARNING")
    IN  IF operations = <<>> THEN "FAILED"
        ELSE IF warning_operations # <<>> THEN "WARNING"
        ELSE IF failed_operations # <<>> THEN "FAILED"
        ELSE "SUCCESS"

check_backup_health(results) ==
    LET operations == get(results, "backup_operations", <<>>)
        failed_operations ==
            SelectSeq(operations, LAMBDA op : get(op, "status", "None") = "FAILED")
        warning_operations ==
            SelectSeq(operations, LAMBDA op : get(op, "status", "None") = "WARNING")
    IN  IF operations = <<>> THEN "FAILED"
        ELSE IF failed_operations # <<>> THEN "FAILED"
        ELSE IF warning_operations # <<>> THEN "WARNING"
        ELSE "SUCCESS"

-----------------------------------------------------------------------------
(* handler *)

NoResponse == [kind |-> "none"]

\* the try block with the health check ahead of the metadata upload
Order_HealthBeforeUpload == <<"k8s", "rds", "app", "health", "meta", "ret">>

\* the statements of handler's try block, in program order (lines 45-70)
Order == <<"k8s", "rds", "app", "meta", "health", "ret">>

Succ(p) ==
    LET i == CHOOSE k \in DOMAIN Order : Order[k] = p
    IN  IF i < Len(Order) THEN Order[i + 1] ELSE "done"

StepPcs == {"k8s", "rds", "app", "meta"}

\* handler without its except clause: the exception reaches the caller
handler_except_Propagates(results, e) ==
    [backup_results |-> results, response |-> [kind |-> "raise", exc |-> e]]

\* the except clause of handler (lines 72-80)
handler_except(results, e) ==
    LET failed == ("error" :> e) @@ ("overall_status" :> "FAILED") @@ results
    IN  [backup_results |-> failed,
         response |-> [kind |-> "return", statusCode |-> 500,
                       body |-> json_dumps(failed)]]

\* Step with a handler that gives up on the first FAILED result
Step_StopsOnFailure(out) ==
    /\ invoked' = Append(invoked, [step |-> pc, kind |-> out.kind,
                                   raised |-> out.raised, exc |-> out.exc])
    /\ s3' = s3 \o out.puts
    /\ IF out.kind = "raise"
       THEN LET h == handler_except(backup_results, out.exc)
            IN  /\ backup_results' = h.backup_results
                /\ response' = h.response
                /\ pc' = "done"
       ELSE /\ backup_results' =
                  [backup_results EXCEPT !.backup_operations = Append(@, out.value)]
            /\ pc' = IF out.value.status = "FAILED" THEN "health" ELSE Succ(pc)
            /\ UNCHANGED response
    /\ UNCHANGED <<cluster_status, rds>>

\* a call of a step inside the try block, and the append that follows it
Step(out) ==
    /\ invoked' = Append(invoked, [step |-> pc, kind |-> out.kind,
                                   raised |-> out.raised, exc |-> out.exc])
    /\ s3' = s3 \o out.puts
    /\ IF out.kind = "raise"
       THEN LET h == handler_except(backup_results, out.exc)
            IN  /\ backup_results' = h.backup_results
                /\ response' = h.response
                /\ pc' = "done"
       ELSE /\ backup_results' =
                  [backup_results EXCEPT !.backup_operations = Append(@, out.value)]
            /\ pc' = Succ(pc)
            /\ UNCHANGED response
    /\ UNCHANGED <<cluster_status, rds>>

CallKubernetes ==
    /\ pc = "k8s"
    /\ \E fault \in Faults : Step(backup_kubernetes_resources(cluster_status, fault))

CallRds ==
    /\ pc = "rds"
    /\ \E fault \in Faults : Step(verify_rds_backups(rds, fault))

CallAppData ==
    /\ pc = "app"
    /\ \E fault \in Faults : Step(backup_application_data(fault))

CallMetadata ==
    /\ pc = "meta"
    /\ \E fault \in Faults : Step(upload_backup_metadata(backup_results, fault))

CheckHealth ==
    /\ pc = "health"
    /\ backup_results' =
           ("overall_status" :> check_backup_health(backup_results)) @@ backup_results
    /\ pc' = Succ(pc)
    /\ UNCHANGED <<response, s3, cluster_status, rds, invoked>>

\* ReturnOk whose json.dumps raises inside the try block
ReturnOk_DumpsRaises ==
    /\ pc = "ret"
    /\ LET h == handler_except(backup_results, "not JSON serializable")
       IN  /\ backup_results' = h.backup_results
           /\ response' = h.response
    /\ pc' = "done"
    /\ UNCHANGED <<s3, cluster_status, rds, invoked>>

ReturnOk ==
    /\ pc = "ret"
    /\ response' = [kind |-> "return", statusCode |-> 200,
                    body |-> json_dumps(backup_results)]
    /\ pc' = Succ(pc)
    /\ UNCHANGED <<backup_results, s3, cluster_status, rds, invoked>>

\* a step whose isolation is broken: the call raises into handler's try block
StepEscapes ==
    /\ pc \in StepPcs
    /\ \E e \in ErrMsgs : Step(Raise("escaped", e, <<>>))

-----------------------------------------------------------------------------
(* Specifications *)

NewResults ==
    [environment |-> ENVIRONMENT, cluster_name |-> "main", backup_operations |-> <<>>]

Init ==
    /\ pc = Order[1]
    /\ backup_results = NewResults
    /\ response = NoResponse
    /\ s3 = <<>>
    /\ cluster_status \in ClusterStatuses
    /\ rds \in RdsWorlds
    /\ invoked = <<>>

Next ==
    \/ CallKubernetes
    \/ CallRds
    \/ CallAppData
    \/ CallMetadata
    \/ CheckHealth
    \/ ReturnOk

Spec == Init /\ [][Next]_vars

\* handler run with steps that may break their contract and raise
NextEscape == Next \/ StepEscapes

SpecEscape == Init /\ [][NextEscape]_vars

\* check_backup_health applied to every short sequence of step results
Statuses == {"SUCCESS", "WARNING", "FAILED", "SKIPPED"}

OpResults == [operation : {"op"}, status : Statuses]

InitHealth ==
    /\ pc = "health"
    /\ \E ops \in SeqsUpTo(OpResults, MaxOps) :
           backup_results = [NewResults EXCEPT !.backup_operations = ops]
    /\ response = NoResponse
    /\ s3 = <<>>
    /\ cluster_status = "ACTIVE"
    /\ rds = <<>>
    /\ invoked = <<>>

NextHealth == CheckHealth \/ ReturnOk

SpecHealth == InitHealth /\ [][NextHealth]_vars

-----------------------------------------------------------------------------
(* Claims *)

Operations == backup_results.backup_operations

HasOverallStatus == "overall_status" \in DOMAIN backup_results

Returned == response.kind = "return"

StepOperations ==
    <<"kubernetes_backup", "rds_backup_verification",
      "application_data_backup", "metadata_upload">>

CallOrder == <<"k8s", "rds", "app", "meta">>

\* C1: the statusCode handler returns is 200 exactly when the report's
\* overall_status is SUCCESS or WARNING, and 500 when it is FAILED.
C1_StatusCodeFollowsOverallStatus ==
    Returned =>
        LET overall == response.body.json.overall_status
        IN  /\ response.statusCode = 200 <=> overall \in {"SUCCESS", "WARNING"}
            /\ overall = "FAILED" => response.statusCode = 500

\* C2: a step in which a client call raised has returned to handler (it did
\* not raise), and its result has status FAILED and an error that is the
\* non-empty text of the exception.
C2_StepsCatchExceptions ==
    \A i \in DOMAIN invoked :
        invoked[i].raised # "none" =>
            /\ invoked[i].kind = "return"
            /\ i \in DOMAIN Operations
            /\ Operations[i].operation = StepOperations[i]
            /\ Operations[i].status = "FAILED"
            /\ "error" \in DOMAIN Operations[i]
            /\ Operations[i].error = invoked[i].exc
            /\ Operations[i].error # ""

C2_Witness ==
    /\ Len(invoked) = 4
    /\ \A i \in DOMAIN invoked : invoked[i].raised # "none"
    /\ \A i \in DOMAIN Operations : Operations[i].status = "FAILED"

\* C3: whatever the earlier results are, handler calls the four steps once
\* each in the fixed order, the result of each is in backup_operations as
\* soon as the step has returned, handler does not leave before all four
\* have run, and the report it returns holds the four results in order.
C3_AllStepsRunInOrder ==
    /\ Len(invoked) <= 4
    /\ \A i \in DOMAIN invoked : invoked[i].step = CallOrder[i]
    /\ Len(Operations) = Len(invoked)
    /\ \A i \in DOMAIN Operations :
           /\ Operations[i].operation = StepOperations[i]
           /\ Operations[i].status \in {"SUCCESS", "SKIPPED", "FAILED"}
    /\ Len(invoked) < 4 => pc = CallOrder[Len(invoked) + 1]
    /\ pc = "done" =>
           /\ Returned
           /\ Len(invoked) = 4
           /\ response.body.json.backup_operations = Operations

C3_Witness ==
    /\ pc = "done"
    /\ Operations[1].status = "FAILED"
    /\ Operations[2].status = "FAILED"
    /\ Operations[3].status = "FAILED"
    /\ Operations[4].status = "SUCCESS"
    /\ Len(response.body.json.backup_operations) = 4

\* C4: check_backup_health gives FAILED for an empty sequence or one with a
\* FAILED entry, else WARNING for one with a WARNING entry, else SUCCESS;
\* a SKIPPED entry counts as neither: the result is the one the sequence
\* has with SUCCESS in the place of every SKIPPED.
SkippedAsSuccess(results) ==
    [results EXCEPT !.backup_operations =
        [i \in DOMAIN @ |-> IF @[i].status = "SKIPPED"
                            THEN [@[i] EXCEPT !.status = "SUCCESS"] ELSE @[i]]]

C4_HealthPrecedence ==
    HasOverallStatus =>
        LET overall == backup_results.overall_status
            has(st) == \E i \in DOMAIN Operations : Operations[i].status = st
        IN  /\ (Operations = <<>> \/ has("FAILED")) => overall = "FAILED"
            /\ (Operations # <<>> /\ ~has("FAILED") /\ has("WARNING"))
                   => overall = "WARNING"
            /\ (Operations # <<>> /\ ~has("FAILED") /\ ~has("WARNING"))
                   => overall = "SUCCESS"
            /\ overall = check_backup_health(SkippedAsSuccess(backup_results))

C4_Witness ==
    /\ HasOverallStatus
    /\ Len(Operations) = 4
    /\ Operations[1].status = "SKIPPED"
    /\ Operations[2].status = "WARNING"
    /\ Operations[3].status = "WARNING"
    /\ Operations[4].status = "FAILED"
    /\ backup_results.overall_status = "FAILED"

Last(q) == q[Len(q)]

Escaped == invoked # <<>> /\ Last(invoked).kind = "raise"

\* C5: when an exception has left a step, handler has returned (it did not
\* raise) statusCode 500 and the report, in which error is the text of the
\* exception, overall_status is FAILED and backup_operations holds the
\* results of the steps that had returned before.
C5_EscapedExceptionIsReported ==
    Escaped =>
        /\ pc = "done"
        /\ Returned
        /\ response.statusCode = 500
        /\ response.body.json = backup_results
        /\ "error" \in DOMAIN backup_results
        /\ backup_results.error = Last(invoked).exc
        /\ backup_results.overall_status = "FAILED"
        /\ Len(Operations) = Len(invoked) - 1
        /\ \A i \in DOMAIN Operations :
               /\ Operations[i].operation = StepOperations[i]
               /\ invoked[i].kind = "return"

C5_Witness ==
    /\ Escaped
    /\ Len(invoked) = 3
    /\ Len(response.body.json.backup_operations) = 2
    /\ response.body.json.backup_operations[1].status = "SUCCESS"

\* the instances of the account that verify_rds_backups looks at: those
\* whose identifier holds the environment's name
MatchingIds == {<<"q", "a", "1">>, <<"d", "q", "a">>}

Matching == SelectSeq(rds, LAMBDA x : x.instance.DBInstanceIdentifier \in MatchingIds)

Retention(x) ==
    IF "BackupRetentionPeriod" \in DOMAIN x.instance
    THEN x.instance.BackupRetentionPeriod ELSE 0

RdsVerified == Len(invoked) >= 2 /\ invoked[2].raised = "none"

\* C6: when no client call raised in verify_rds_backups, its result lists
\* the matching instances in order, each HEALTHY when retention > 0 and it
\* has a snapshot, WARNING when retention > 0 and it has none, DISABLED
\* when retention is 0, and the step's status is SUCCESS when every listed
\* instance is HEALTHY or WARNING (none listed included), FAILED otherwise.
C6_RdsClassification ==
    RdsVerified =>
        LET result == Operations[2]
            listed == result.instances
        IN  /\ Len(listed) = Len(Matching)
            /\ \A i \in DOMAIN listed :
                   /\ listed[i].instance_id = Matching[i].instance.DBInstanceIdentifier
                   /\ listed[i].status = "HEALTHY" <=>
                          (Retention(Matching[i]) > 0 /\ Matching[i].DBSnapshots # <<>>)
                   /\ listed[i].status = "WARNING" <=>
                          (Retention(Matching[i]) > 0 /\ Matching[i].DBSnapshots = <<>>)
                   /\ listed[i].status = "DISABLED" <=> Retention(Matching[i]) = 0
            /\ result.status = "SUCCESS" <=>
                   \A i \in DOMAIN listed : listed[i].status \in {"HEALTHY", "WARNING"}
            /\ result.status \in {"SUCCESS", "FAILED"}

C6_Witness ==
    /\ RdsVerified
    /\ Len(Operations[2].instances) = 2
    /\ Operations[2].instances[1].status = "WARNING"
    /\ Operations[2].instances[2].status = "HEALTHY"
    /\ Operations[2].status = "SUCCESS"

OneDisabledOneHealthy ==
    /\ RdsVerified
    /\ Len(Operations[2].instances) = 2
    /\ {Operations[2].instances[i].status : i \in 1..2} = {"DISABLED", "HEALTHY"}
    /\ \E i \in 1..2 : Operations[2].instances[i].backup_retention_days = 0

\* C7 as claimed: with one instance DISABLED (retention 0) and one HEALTHY
\* and no client call raising, verify_rds_backups gives status SUCCESS.
C7_DisabledDoesNotFailStep ==
    OneDisabledOneHealthy => Operations[2].status = "SUCCESS"

\* C7 as amended: with one instance DISABLED (retention 0) and one HEALTHY
\* and no client call raising, verify_rds_backups gives status FAILED.
C7_DisabledFailsStep ==
    OneDisabledOneHealthy => Operations[2].status = "FAILED"

C7_Witness ==
    /\ OneDisabledOneHealthy
    /\ Operations[2].instances[1].status = "HEALTHY"
    /\ pc = "done"

\* C8: overall_status is absent from the report until the four steps have
\* run and their results are appended, or the except clause of handler has
\* run; once it is set, no later step of the run changes it.
C8_OverallStatusSetOnce ==
    /\ [](HasOverallStatus =>
            \/ /\ Len(invoked) = 4
               /\ Len(Operations) = 4
               /\ \A i \in 1..4 : Operations[i].operation = StepOperations[i]
            \/ Escaped)
    /\ [][HasOverallStatus =>
            /\ "overall_status" \in DOMAIN backup_results'
            /\ backup_results'.overall_status = backup_results.overall_status]_vars

C8_Witness ==
    /\ HasOverallStatus
    /\ backup_results.overall_status = "SUCCESS"
    /\ pc = "done"

Reports == {s3[i] : i \in {k \in DOMAIN s3 : s3[k].Key = "backup-reports/backup-report.json"}}

C10_PersistedCopyExcludesOwnResult ==
    /\ \A obj \in Reports :
           LET persisted == obj.Body.json.backup_operations
           IN  /\ Len(persisted) = 3
               /\ Len(Operations) >= 3
               /\ persisted = SubSeq(Operations, 1, 3)
               /\ \A i \in 1..3 : persisted[i].operation = StepOperations[i]
               /\ \A i \in 1..3 : persisted[i].operation # "metadata_upload"
    /\ Cardinality(Reports) <= 1
    /\ Returned =>
           LET returned == response.body.json.backup_operations
           IN  /\ Len(returned) = 4
               /\ returned[4].operation = "metadata_upload"

C10_Witness ==
    /\ Returned
    /\ Reports # {}
    /\ response.body.json.backup_operations[4].status = "SUCCESS"
    /\ response.body.json.backup_operations[2].status = "FAILED"

\* C11: no step returns status WARNING: each result is SUCCESS or FAILED,
\* or SKIPPED for kubernetes_backup alone; a WARNING of an instance stays
\* inside the instances list of rds_backup_verification.  So the
\* overall_status of the report, and of the report handler returns, is
\* SUCCESS or FAILED and never WARNING.
C11_NoStepWarns ==
    /\ \A i \in DOMAIN Operations :
           \/ Operations[i].status \in {"SUCCESS", "FAILED"}
           \/ /\ Operations[i].status = "SKIPPED"
              /\ i = 1
              /\ Operations[i].operation = "kubernetes_backup"
    /\ HasOverallStatus => backup_results.overall_status \in {"SUCCESS", "FAILED"}
    /\ Returned =>
           /\ "overall_status" \in DOMAIN response.body.json
           /\ response.body.json.overall_status \in {"SUCCESS", "FAILED"}

C11_Witness ==
    /\ Returned
    /\ RdsVerified
    /\ \E i \in DOMAIN Operations[2].instances :
           Operations[2].instances[i].status = "WARNING"
    /\ Operations[2].status = "SUCCESS"
    /\ Operations[1].status = "SKIPPED"
    /\ response.body.json.overall_status = "SUCCESS"

====
